---- MODULE Spec2Model ----
(***************************************************************************)
(* A model of the SMC engine of trading-flask-bot (src/smc_engine.py), of  *)
(* the webhook handler that drives it (src/smc_trading_bot_multi.py), and  *)
(* of the trend evaluation (src/old scripts/smc_logic.py and               *)
(* src/smc_visual_alerts.py).                                              *)
(*                                                                         *)
(* Prices are integers: pips (1 pip = 0.0001) above a base price.  Every   *)
(* price of the candle alphabet is an even number of pips, so that the 1.5 *)
(* reward multiple of generate_signal stays integral; the engine computes  *)
(* with differences of prices only.                                        *)
(***************************************************************************)
EXTENDS Integers, Sequences, FiniteSets, TLC

VARIABLES
    candles,   \* SMCEngine.candles : timeframe -> list of Candle
    pois,      \* SMCEngine.pois    : list of POI
    prov,      \* history variable, parallel to pois: which call built each POI
    signal,    \* the value returned by the last generate_signal call
    pc,        \* "idle", or the method the engine's caller is still inside
    engines,   \* the server's dict: symbol -> SMCEngine (SpecServer)
    threads,   \* the server's request threads: where each is in webhook()
    trend      \* the last call of a function that keeps no state (the trend
               \* evaluation, the detectors of smc_logic.py) and what it returned

vars == <<candles, pois, prov, signal, pc, engines, threads, trend>>

----------------------------------------------------------------------------
(* Bounds of the model                                                     *)

MaxCandles == 5     \* candles stored by one engine, all timeframes together
MaxBatch == 3       \* candles in one webhook payload
MaxPois == 7        \* length of the POI list (stands for the memory limit)
MaxTime == 3        \* distinct timestamps a payload may carry (SpecSeries)
MaxGiven == 2       \* length of a POI list handed to generate_signal (SpecSignal)
MaxDeliveries == 2  \* webhook deliveries the server receives (SpecServer)
MaxBars == 11       \* candles in a window given to the trend evaluation (SpecTrend)
MaxSupport == 2     \* supporting POIs the trend evaluation counts (SpecTrend)
MaxAlertCandles == 7  \* candles stored by the engine of SpecAlert
MaxFrameCandles == 5  \* candles stored by the engine of SpecFrames
MaxWindow == 5      \* candles in a window given to a detector of smc_logic.py

----------------------------------------------------------------------------
(* Program constants                                                       *)

FVG_FILL_NUM == 1        \* fvg_fill_threshold = 0.5 = FVG_FILL_NUM / FVG_FILL_DEN
FVG_FILL_DEN == 2
FILL_WINDOW == 10        \* tf_candles[-10:]
LIQ_TOL == 3             \* 0.0003, in pips
RR_NUM == 3              \* the reward multiple 1.5 = RR_NUM / RR_DEN
RR_DEN == 2
MIN_CONFLUENCE == 2      \* signal.confluence_score >= 2
FVG_MIN_CANDLES == 3     \* len(candles) < 3: return
OB_MIN_CANDLES == 5      \* len(candles) < 5: return
LIQ_MIN_CANDLES == 3     \* len(candles) < 3: return
STRUCTURE_MIN_CANDLES == 5   \* detect_structure: len(candles) < 5
TREND_MIN_BARS == 10     \* evaluate_single_tf: len(df) < 10
TREND_CONFIDENCE == 60   \* confidence >= 60
TABLE_STEP == 10         \* generate_trend_table: len(candles)*10
TABLE_CAP == 100         \* generate_trend_table: min(100, ...)
BOS_WINDOW == 200        \* detect_breaker_blocks: range(pos+1, min(len(df), pos+1+200))
RETEST_BARS == 10        \* detect_breaker_blocks: retest_bars=10
POOL_WINDOW == 50        \* detect_liquidity_pools of smc_logic.py: window=50
POINTS_PER_LEVEL == 10   \* round(4) of a price quoted to five decimals
CROSS_BARS == 10         \* evaluate_single_tf: recent = min(len(closes), 10)

PRIMARY_TF == "M15"
TFs == {"M15", "H1"}

NoSignal == [symbol |-> "none"]
SYMBOL == "EURUSD"

\* SYMBOLS, cut to its first two entries
SYMBOLS == {"EURUSD", "GBPUSD"}

\* The threads of the server that run webhook()
Threads == {"t1", "t2"}

NoTrend == [function |-> "none"]

----------------------------------------------------------------------------
(* Small helpers                                                           *)

Abs(x) == IF x < 0 THEN -x ELSE x

Min(a, b) == IF a < b THEN a ELSE b

Max(a, b) == IF a > b THEN a ELSE b

\* Python's s[-n:]
LastN(s, n) == SubSeq(s, Max(1, Len(s) - n + 1), Len(s))

\* Python's s[-k] for 1 <= k <= len(s)
FromEnd(s, k) == s[Len(s) - k + 1]

TotalCandles(cs) == Len(cs["M15"]) + Len(cs["H1"])

----------------------------------------------------------------------------
(* Data structures                                                         *)

\* The payloads of the model: the OHLC shapes a webhook candle may have.
\*   a doji at 0, a bullish candle 0 -> 2, a doji at 2, a bearish candle 6 -> 4
CandleShapes ==
    { [open |-> 0, high |-> 0, low |-> 0, close |-> 0],
      [open |-> 0, high |-> 2, low |-> 0, close |-> 2],
      [open |-> 2, high |-> 2, low |-> 2, close |-> 2],
      [open |-> 6, high |-> 6, low |-> 4, close |-> 4] }

\* One entry c of candle_list
Payload(shape, time) ==
    [time |-> time, open |-> shape.open, high |-> shape.high,
     low |-> shape.low, close |-> shape.close, volume |-> 0]

\* An entry of candle_list without its 'close' key
MalformedPayload(shape, time) ==
    [time |-> time, open |-> shape.open, high |-> shape.high,
     low |-> shape.low, volume |-> 0]

\* The keys add_candles subscripts: c['time'], c['open'], c['high'],
\* c['low'], c['close']  (volume is read with c.get('volume', 0))
CandleKeys == {"time", "open", "high", "low", "close"}

WellFormed(c) == CandleKeys \subseteq DOMAIN c

\* Candle(timestamp=..., open=..., ...)
Candle(c) ==
    [timestamp |-> c.time, open |-> c.open, high |-> c.high,
     low |-> c.low, close |-> c.close, volume |-> c.volume]

\* POI(poi_type, direction, start, end): validated defaults to True and
\* created_at to the clock, which is read here as a logical clock that
\* ticks once per POI built.
POI(poi_type, direction, start, end, now) ==
    [poi_type |-> poi_type, direction |-> direction, start |-> start,
     end |-> end, validated |-> TRUE, created_at |-> now]

\* History: the call that built a POI, the timeframe it looked at and the
\* position it refers to (the first candle of the triple; for an inverse
\* POI the position in pois of the gap it inverts).
Origin(by, tf, at) == [by |-> by, tf |-> tf, at |-> at]

----------------------------------------------------------------------------
(* SMCEngine.add_candles                                                   *)

\* A variant that passes over an entry it cannot convert
RECURSIVE add_candles_skipping(_, _)
add_candles_skipping(series, candle_list) ==
    IF candle_list = <<>> THEN series
    ELSE IF ~WellFormed(Head(candle_list))
    THEN add_candles_skipping(series, Tail(candle_list))
    ELSE add_candles_skipping(Append(series, Candle(Head(candle_list))),
                              Tail(candle_list))

\* for c in candle_list: self.candles[tf].append(Candle(...))
\* Candle(...) subscripts the keys of c outside any try block: at an entry
\* with a key missing the KeyError ends the call, with the candles appended
\* so far left in the series.
RECURSIVE add_candles(_, _)
add_candles(series, candle_list) ==
    IF candle_list = <<>> THEN series
    ELSE IF ~WellFormed(Head(candle_list)) THEN series
    ELSE add_candles(Append(series, Candle(Head(candle_list))), Tail(candle_list))

----------------------------------------------------------------------------
(* SMCEngine.detect_fvgs                                                   *)

\* A variant that also takes two candles that touch for a gap
detect_fvgs_touching(series, ps) ==
    IF Len(series) < FVG_MIN_CANDLES THEN ps
    ELSE LET mid == FromEnd(series, 2)
             lst == FromEnd(series, 1)
         IN  IF mid.low >= lst.high
             THEN Append(ps, POI("FVG", "bearish", lst.high, mid.low, Len(ps) + 1))
             ELSE IF mid.high <= lst.low
             THEN Append(ps, POI("FVG", "bullish", mid.high, lst.low, Len(ps) + 1))
             ELSE ps

detect_fvgs(series, ps) ==
    IF Len(series) < FVG_MIN_CANDLES THEN ps
    ELSE LET mid == FromEnd(series, 2)
             lst == FromEnd(series, 1)
         IN  IF mid.low > lst.high
             THEN Append(ps, POI("FVG", "bearish", lst.high, mid.low, Len(ps) + 1))
             ELSE IF mid.high < lst.low
             THEN Append(ps, POI("FVG", "bullish", mid.high, lst.low, Len(ps) + 1))
             ELSE ps

----------------------------------------------------------------------------
(* SMCEngine.detect_order_blocks                                           *)

detect_order_blocks(series, ps) ==
    IF Len(series) < OB_MIN_CANDLES THEN ps
    ELSE LET last_candle == FromEnd(series, 2)
             prev_candle == FromEnd(series, 3)
         IN  IF prev_candle.close < prev_candle.open /\ last_candle.close > last_candle.open
             THEN Append(ps, POI("OB", "bullish", prev_candle.open, prev_candle.close,
                                 Len(ps) + 1))
             ELSE IF prev_candle.close > prev_candle.open /\ last_candle.close < last_candle.open
             THEN Append(ps, POI("OB", "bearish", prev_candle.close, prev_candle.open,
                                 Len(ps) + 1))
             ELSE ps

----------------------------------------------------------------------------
(* SMCEngine.detect_liquidity_pools                                        *)

detect_liquidity_pools(series, ps) ==
    IF Len(series) < LIQ_MIN_CANDLES THEN ps
    ELSE LET first == FromEnd(series, 3)
             lst == FromEnd(series, 1)
             ps1 == IF Abs(first.high - lst.high) < LIQ_TOL
                    THEN Append(ps, POI("Liquidity", "bearish", first.high, lst.high,
                                        Len(ps) + 1))
                    ELSE ps
         IN  IF Abs(first.low - lst.low) < LIQ_TOL
             THEN Append(ps1, POI("Liquidity", "bullish", first.low, lst.low, Len(ps1) + 1))
             ELSE ps1

\* History of the POIs a detector appended: pv extended to the length of ps.
Track(pv, ps, by, tf, at) ==
    pv \o [k \in 1..(Len(ps) - Len(pv)) |-> Origin(by, tf, at)]

----------------------------------------------------------------------------
(* SMCEngine.validate_fvgs / validate_pois                                 *)

\* fill_ratio >= self.fvg_fill_threshold, for fill_ratio = num / den, den # 0
RatioReached(num, den) ==
    IF den > 0 THEN num * FVG_FILL_DEN >= FVG_FILL_NUM * den
    ELSE num * FVG_FILL_DEN <= FVG_FILL_NUM * den

\* The candles of the window that reach the test of the fill ratio
Touching(poi, window) ==
    { j \in 1..Len(window) :
        \/ poi.direction = "bullish" /\ window[j].low < poi.start
        \/ poi.direction # "bullish" /\ poi.direction = "bearish"
             /\ window[j].high > poi.end }

FillNum(poi, c) ==
    IF poi.direction = "bullish" THEN poi.start - c.low ELSE c.high - poi.end

\* The inner loop "for c in tf_candles[-10:]" on one POI:
\*   "raise" a division by zero, "fill" the break after an invalidation,
\*   "keep" the loop ran out.
RECURSIVE scan_fill(_, _, _)
scan_fill(poi, window, j) ==
    IF j > Len(window) THEN "keep"
    ELSE IF j \notin Touching(poi, window) THEN scan_fill(poi, window, j + 1)
    ELSE IF poi.end - poi.start = 0 THEN "raise"
    ELSE IF RatioReached(FillNum(poi, window[j]), poi.end - poi.start) THEN "fill"
    ELSE scan_fill(poi, window, j + 1)

Opposite(direction) == IF direction = "bullish" THEN "bearish" ELSE "bullish"

\* A variant that records the inverse of a filled gap as a breaker block
inverse_poi_breaker(poi, now) ==
    POI("BB", Opposite(poi.direction), poi.start, poi.end, now)

\* inverse_poi = POI("FVG", <opposite>, poi.start, poi.end)
inverse_poi(poi, now) == POI("FVG", Opposite(poi.direction), poi.start, poi.end, now)

\* A variant that turns the record itself into its inverse
InvalidateInPlace(ps, i) ==
    [ps EXCEPT ![i].validated = FALSE, ![i].direction = Opposite(ps[i].direction)]

\* poi.validated = False
Invalidate(ps, i) == [ps EXCEPT ![i].validated = FALSE]

\* The outer loop "for poi in self.pois" from position i on.  The list
\* iterator reads the list's current length, so POIs appended by the loop
\* are visited by the same loop.  status is "returned", "ZeroDivisionError",
\* or "looping" when the list has reached MaxPois and the loop goes on
\* appending.
RECURSIVE validate_from(_, _, _, _)
validate_from(ps, pv, i, window) ==
    IF i > Len(ps) THEN [pois |-> ps, prov |-> pv, status |-> "returned"]
    ELSE IF ps[i].poi_type # "FVG" \/ ~ps[i].validated
    THEN validate_from(ps, pv, i + 1, window)
    ELSE LET hit == scan_fill(ps[i], window, 1)
         IN  IF hit = "raise"
             THEN [pois |-> ps, prov |-> pv, status |-> "ZeroDivisionError"]
             ELSE IF hit = "keep" THEN validate_from(ps, pv, i + 1, window)
             ELSE IF Len(ps) >= MaxPois
             THEN [pois |-> Invalidate(ps, i), prov |-> pv, status |-> "looping"]
             ELSE validate_from(
                      Append(Invalidate(ps, i), inverse_poi(ps[i], Len(ps) + 1)),
                      Append(pv, Origin("validate_fvgs", pv[i].tf, i)),
                      i + 1, window)

\* A variant that reads the candles of every timeframe
validate_fvgs_any_tf(cs, ps, pv) ==
    validate_from(ps, pv, 1, LastN(cs["H1"] \o cs[PRIMARY_TF], FILL_WINDOW))

validate_fvgs(cs, ps, pv) == validate_from(ps, pv, 1, LastN(cs[PRIMARY_TF], FILL_WINDOW))

validate_pois(cs, ps, pv) == validate_fvgs(cs, ps, pv)


----------------------------------------------------------------------------
(* SMCEngine.generate_signal                                               *)

\* any(p.poi_type == kind and p.direction == direction for p in self.pois)
AnyPoi(ps, kind, direction) ==
    \E k \in 1..Len(ps) : ps[k].poi_type = kind /\ ps[k].direction = direction

Confluence(ps, direction) ==
    [fvg |-> AnyPoi(ps, "FVG", direction),
     order_block |-> AnyPoi(ps, "OB", direction),
     breaker_block |-> AnyPoi(ps, "BB", direction),
     liquidity_sweep |-> AnyPoi(ps, "Liquidity", direction)]

\* sum(confluence.values())
ConfluenceScore(confluence) ==
    Cardinality({ k \in DOMAIN confluence : confluence[k] })

SignalEntry(poi) == IF poi.direction = "bullish" THEN poi.start ELSE poi.end

SignalStop(poi) == IF poi.direction = "bullish" THEN poi.end ELSE poi.start

\* entry + (entry - stop) * 1.5  /  entry - (stop - entry) * 1.5
SignalTarget(poi) ==
    LET entry == SignalEntry(poi)
        stop == SignalStop(poi)
    IN  IF poi.direction = "bullish"
        THEN entry + ((entry - stop) * RR_NUM) \div RR_DEN
        ELSE entry - ((stop - entry) * RR_NUM) \div RR_DEN

\* A variant whose rr is (target - entry) / (entry - stop), without abs()
SignalOfSigned(ps, i) ==
    LET poi == ps[i]
        confluence == Confluence(ps, poi.direction)
    IN  [symbol |-> SYMBOL,
         direction |-> IF poi.direction = "bullish" THEN "long" ELSE "short",
         entry |-> SignalEntry(poi),
         stop |-> SignalStop(poi),
         target |-> SignalTarget(poi),
         rr |-> [num |-> SignalTarget(poi) - SignalEntry(poi),
                 den |-> SignalEntry(poi) - SignalStop(poi)],
         confluence |-> confluence,
         confluence_score |-> ConfluenceScore(confluence),
         poi |-> i]

\* Signal(...) built from POI ps[i]; rr is kept as the fraction num / den
SignalOf(ps, i) ==
    LET poi == ps[i]
        confluence == Confluence(ps, poi.direction)
    IN  [symbol |-> SYMBOL,
         direction |-> IF poi.direction = "bullish" THEN "long" ELSE "short",
         entry |-> SignalEntry(poi),
         stop |-> SignalStop(poi),
         target |-> SignalTarget(poi),
         rr |-> [num |-> Abs(SignalTarget(poi) - SignalEntry(poi)),
                 den |-> Abs(SignalEntry(poi) - SignalStop(poi))],
         confluence |-> confluence,
         confluence_score |-> ConfluenceScore(confluence),
         poi |-> i]

\* The loop "for poi in self.pois" from position i on: the Signal returned,
\* NoSignal for None, or the fault of abs(entry - stop) = 0.
RECURSIVE signal_from(_, _)
signal_from(ps, i) ==
    IF i > Len(ps) THEN NoSignal
    ELSE IF ~ps[i].validated THEN signal_from(ps, i + 1)
    ELSE IF ps[i].poi_type \notin {"FVG", "OB", "BB"} THEN signal_from(ps, i + 1)
    ELSE IF SignalEntry(ps[i]) = SignalStop(ps[i]) THEN [symbol |-> "ZeroDivisionError"]
    ELSE IF SignalOf(ps, i).confluence_score >= MIN_CONFLUENCE THEN SignalOf(ps, i)
    ELSE signal_from(ps, i + 1)

\* A variant of the loop without "if not poi.validated: continue"
RECURSIVE signal_from_stale(_, _)
signal_from_stale(ps, i) ==
    IF i > Len(ps) THEN NoSignal
    ELSE IF ps[i].poi_type \notin {"FVG", "OB", "BB"} THEN signal_from_stale(ps, i + 1)
    ELSE IF SignalEntry(ps[i]) = SignalStop(ps[i]) THEN [symbol |-> "ZeroDivisionError"]
    ELSE IF SignalOf(ps, i).confluence_score >= MIN_CONFLUENCE THEN SignalOf(ps, i)
    ELSE signal_from_stale(ps, i + 1)

generate_signal_stale(ps) == signal_from_stale(ps, 1)

generate_signal(ps) == signal_from(ps, 1)

\* A variant of the loop that passes over a POI with entry = stop
RECURSIVE signal_from_skipping(_, _)
signal_from_skipping(ps, i) ==
    IF i > Len(ps) THEN NoSignal
    ELSE IF ~ps[i].validated THEN signal_from_skipping(ps, i + 1)
    ELSE IF ps[i].poi_type \notin {"FVG", "OB", "BB"} THEN signal_from_skipping(ps, i + 1)
    ELSE IF SignalEntry(ps[i]) = SignalStop(ps[i]) THEN signal_from_skipping(ps, i + 1)
    ELSE IF SignalOf(ps, i).confluence_score >= MIN_CONFLUENCE THEN SignalOf(ps, i)
    ELSE signal_from_skipping(ps, i + 1)

IsSignal(sig) == sig.symbol = SYMBOL

----------------------------------------------------------------------------
(* The state machine                                                       *)

\* SMCEngine(symbol=symbol); deliveries is a history field, the number of
\* webhook deliveries the engine was handed
NewEngine ==
    [candles |-> [tf \in TFs |-> <<>>], pois |-> <<>>, prov |-> <<>>, deliveries |-> 0]

\* A request thread outside webhook()
IdleThread == [pc |-> "idle", symbol |-> "none", signal |-> NoSignal]

\* engines = {symbol: SMCEngine(symbol=symbol) for symbol in SYMBOLS}
InitServer ==
    /\ engines = [symbol \in SYMBOLS |-> NewEngine]
    /\ threads = [t \in Threads |-> IdleThread]

InitEngine ==
    /\ candles = [tf \in TFs |-> <<>>]
    /\ pois = <<>>
    /\ prov = <<>>
    /\ signal = NoSignal
    /\ pc = "idle"

Init ==
    /\ InitEngine
    /\ InitServer
    /\ trend = NoTrend

\* The timeframes the webhook is sent: tf = data.get('timeframe', 'M15')
FedTFs == {PRIMARY_TF}

\* Payloads of up to MaxBatch candles
Batches == UNION { [1..n -> CandleShapes] : n \in 0..MaxBatch }

\* The feed the collaborators promise: timestamps go on from the series' length
Feed(series, shapes) ==
    [k \in 1..Len(shapes) |-> Payload(shapes[k], Len(series) + k)]

NumValidFvg(ps) ==
    Cardinality({ k \in 1..Len(ps) : ps[k].poi_type = "FVG" /\ ps[k].validated })

\* A variant whose detectors start from an empty list, the POIs of earlier
\* webhooks being dropped
DetectedAfresh(series, tf, ps, pv) ==
    LET p1 == detect_fvgs(series, <<>>)
        v1 == Track(<<>>, p1, "detect_fvgs", tf, Len(series) - 2)
        p2 == detect_order_blocks(series, p1)
        v2 == Track(v1, p2, "detect_order_blocks", tf, Len(series) - 2)
        p3 == detect_liquidity_pools(series, p2)
        v3 == Track(v2, p3, "detect_liquidity_pools", tf, Len(series) - 2)
    IN  [pois |-> p3, prov |-> v3]

\* The POI list and its history after the three detectors of the webhook
Detected(series, tf, ps, pv) ==
    LET p1 == detect_fvgs(series, ps)
        v1 == Track(pv, p1, "detect_fvgs", tf, Len(series) - 2)
        p2 == detect_order_blocks(series, p1)
        v2 == Track(v1, p2, "detect_order_blocks", tf, Len(series) - 2)
        p3 == detect_liquidity_pools(series, p2)
        v3 == Track(v2, p3, "detect_liquidity_pools", tf, Len(series) - 2)
    IN  [pois |-> p3, prov |-> v3]

\* A validation loop that returns appends at most one POI per valid FVG, so
\* with this room in the list only a loop that does not return reaches MaxPois.
RoomIn(ps, limit) == Len(ps) + NumValidFvg(ps) <= limit

Room(ps) == RoomIn(ps, MaxPois)

\* The caller's position after validate_pois ended with status: a raised
\* ZeroDivisionError ends the call, a loop that goes on does not.
After(status) == IF status = "looping" THEN "validate_fvgs" ELSE "idle"

\* webhook(): add_candles, the detectors, validate_pois, generate_signal
Deliver(tf, shapes, maxCandles, maxPois) ==
    /\ pc = "idle"
    /\ TotalCandles(candles) + Len(shapes) <= maxCandles
    /\ \E series \in {add_candles(candles[tf], Feed(candles[tf], shapes))} :
       \E det \in {Detected(series, tf, pois, prov)} :
          /\ RoomIn(det.pois, maxPois)
          /\ candles' = [candles EXCEPT ![tf] = series]
          /\ \E val \in {validate_pois(candles', det.pois, det.prov)} :
                /\ pois' = val.pois
                /\ prov' = val.prov
                /\ pc' = After(val.status)
                /\ signal' = IF val.status = "returned"
                             THEN generate_signal(val.pois)
                             ELSE signal
    /\ UNCHANGED <<engines, threads, trend>>

Webhook(tf, shapes) == Deliver(tf, shapes, MaxCandles, MaxPois)

\* engine.validate_pois() called once more
ValidatePois ==
    /\ pc = "idle"
    /\ Room(pois)
    /\ \E val \in {validate_pois(candles, pois, prov)} :
          /\ pois' = val.pois
          /\ prov' = val.prov
          /\ pc' = After(val.status)
    /\ UNCHANGED <<candles, signal, engines, threads, trend>>

\* engine.generate_signal() called once more
GenerateSignal ==
    /\ pc = "idle"
    /\ signal' = generate_signal(pois)
    /\ UNCHANGED <<candles, pois, prov, pc, engines, threads, trend>>

Next ==
    \/ \E tf \in FedTFs, shapes \in Batches : Webhook(tf, shapes)
    \/ ValidatePois
    \/ GenerateSignal

Spec == Init /\ [][Next]_vars

\* The engine of one symbol over a longer run: webhooks of one candle each
\* for the primary timeframe, so that candles arrive after an order block
\* The shapes of those candles: the ones of CandleShapes and a bullish candle
\* 4 -> 6 that overlaps the bearish one, so that an order block can form
\* without a gap
AlertShapes ==
    CandleShapes \cup { [open |-> 4, high |-> 6, low |-> 4, close |-> 6] }

WebhookCandle(shape) ==
    Deliver(PRIMARY_TF, <<shape>>, MaxAlertCandles, MaxPois)

NextAlert ==
    \/ \E shape \in AlertShapes : WebhookCandle(shape)
    \/ ValidatePois
    \/ GenerateSignal

SpecAlert == Init /\ [][NextAlert]_vars

\* The engine of one symbol fed on every timeframe: webhooks of one candle
\* each, with 'timeframe' M15 or H1, after a first webhook that may bring a
\* history of M15: a candle of any shape and FILL_WINDOW dojis at 0 after it
HistoryBatches ==
    { [k \in 1..(FILL_WINDOW + 1) |->
         IF k = 1 THEN shape
         ELSE [open |-> 0, high |-> 0, low |-> 0, close |-> 0]] :
        shape \in CandleShapes }

WebhookHistory(shapes) ==
    /\ TotalCandles(candles) = 0
    /\ Deliver(PRIMARY_TF, shapes, Len(shapes), MaxPois)

\* The candles the engine of SpecFrames may hold: MaxFrameCandles, the
\* history not counted
FrameCandles ==
    IF Len(candles[PRIMARY_TF]) > FILL_WINDOW
    THEN FILL_WINDOW + MaxFrameCandles
    ELSE MaxFrameCandles

WebhookFrame(tf, shape) == Deliver(tf, <<shape>>, FrameCandles, MaxPois)

NextFrames ==
    \/ \E shapes \in HistoryBatches : WebhookHistory(shapes)
    \/ \E tf \in TFs, shape \in CandleShapes : WebhookFrame(tf, shape)
    \/ ValidatePois

SpecFrames == Init /\ [][NextFrames]_vars


----------------------------------------------------------------------------
(* The candle series alone: add_candles called with payloads that carry    *)
(* any timestamps, in any order.                                           *)

Doji == [open |-> 2, high |-> 2, low |-> 2, close |-> 2]

TimedPayloads ==
    { Payload(Doji, t) : t \in 1..MaxTime } \cup
    { MalformedPayload(Doji, t) : t \in 1..MaxTime }

TimedBatches == UNION { [1..n -> TimedPayloads] : n \in 1..MaxBatch }

\* engine.add_candles(tf, candle_list)
AddCandles(tf, candle_list) ==
    /\ pc = "idle"
    /\ TotalCandles(candles) + Len(candle_list) <= MaxCandles
    /\ candles' = [candles EXCEPT ![tf] = add_candles(candles[tf], candle_list)]
    /\ UNCHANGED <<pois, prov, signal, pc, engines, threads, trend>>

NextSeries == \E tf \in TFs, candle_list \in TimedBatches : AddCandles(tf, candle_list)

SpecSeries == Init /\ [][NextSeries]_vars

----------------------------------------------------------------------------
(* generate_signal alone: called on an engine whose POI list was filled by *)
(* its caller.  pois is a public list of POI records; the bands here       *)
(* include the zero-width band (start = end).                              *)

GivenBands == { <<0, 0>>, <<0, 2>> }

GivenPois ==
    { [poi_type |-> kind, direction |-> direction, start |-> band[1],
       end |-> band[2], validated |-> validated, created_at |-> 0] :
        kind \in {"FVG", "OB", "Liquidity"}, direction \in {"bullish", "bearish"},
        band \in GivenBands, validated \in BOOLEAN }

GivenPoiLists == UNION { [1..n -> GivenPois] : n \in 0..MaxGiven }

InitSignal ==
    /\ candles = [tf \in TFs |-> <<>>]
    /\ pois \in GivenPoiLists
    /\ prov = [k \in 1..Len(pois) |-> Origin("caller", PRIMARY_TF, 0)]
    /\ signal = NoSignal
    /\ pc = "idle"
    /\ InitServer
    /\ trend = NoTrend

NextSignal == GenerateSignal

SpecSignal == InitSignal /\ [][NextSignal]_vars

----------------------------------------------------------------------------
(* The server: one engine per symbol, and request threads that each run    *)
(* webhook() for one delivery.  webhook() takes no lock, so between two     *)
(* method calls of one thread another thread may run.                       *)

\* The candle shapes the server is sent: the doji at 0 and the bearish candle
ServerShapes == { c \in CandleShapes : c.open \in {0, 6} /\ c.close # 2 }

\* The server is sent batches of three candles, the fewest on which its
\* detectors act, and of one candle less
ServerBatches ==
    UNION { [1..n -> ServerShapes] : n \in {FVG_MIN_CANDLES - 1, FVG_MIN_CANDLES} }

\* engines[symbol] = engine
PutEngineShared(es, symbol, engine) == [s \in DOMAIN es |-> engine]

\* engine = engines[symbol]; engine.<method>(...): the methods change the
\* one SMCEngine object that the dict holds under symbol
PutEngine(es, symbol, engine) == [es EXCEPT ![symbol] = engine]

\* Deliveries received so far for the symbols ss
RECURSIVE Delivered(_)
Delivered(ss) ==
    IF ss = {} THEN 0
    ELSE LET symbol == CHOOSE s \in ss : TRUE
         IN  engines[symbol].deliveries + Delivered(ss \ {symbol})

At(t, step) == threads[t].pc = step

Goto(t, step) == threads' = [threads EXCEPT ![t].pc = step]

\* webhook(), up to engine.add_candles(tf, candles)
WebhookAddCandles(t, symbol, shapes) ==
    /\ At(t, "idle")
    /\ Delivered(SYMBOLS) < MaxDeliveries
    /\ \E engine \in {engines[symbol]} :
          /\ TotalCandles(engine.candles) + Len(shapes) <= MaxCandles
          /\ \E series \in {add_candles(engine.candles[PRIMARY_TF],
                                        Feed(engine.candles[PRIMARY_TF], shapes))} :
                engines' = PutEngine(engines, symbol,
                                     [engine EXCEPT !.candles[PRIMARY_TF] = series,
                                                    !.deliveries = @ + 1])
    /\ threads' = [threads EXCEPT ![t] =
                      [pc |-> "detect", symbol |-> symbol, signal |-> NoSignal]]
    /\ UNCHANGED <<candles, pois, prov, signal, pc, trend>>

\* engine.detect_fvgs(tf); engine.detect_order_blocks(tf);
\* engine.detect_liquidity_pools(tf)
WebhookDetect(t) ==
    /\ At(t, "detect")
    /\ \E engine \in {engines[threads[t].symbol]} :
       \E det \in {Detected(engine.candles[PRIMARY_TF], PRIMARY_TF,
                             engine.pois, engine.prov)} :
          /\ Len(det.pois) <= MaxPois
          /\ engines' = PutEngine(engines, threads[t].symbol,
                 [engine EXCEPT !.pois = det.pois, !.prov = det.prov])
    /\ Goto(t, "validate_pois")
    /\ UNCHANGED <<candles, pois, prov, signal, pc, trend>>

\* engine.validate_pois()
WebhookValidatePois(t) ==
    /\ At(t, "validate_pois")
    /\ \E engine \in {engines[threads[t].symbol]} :
          /\ Room(engine.pois)
          /\ \E val \in {validate_pois(engine.candles, engine.pois, engine.prov)} :
                /\ engines' = PutEngine(engines, threads[t].symbol,
                       [engine EXCEPT !.pois = val.pois, !.prov = val.prov])
                /\ Goto(t, IF val.status = "returned" THEN "generate_signal"
                           ELSE After(val.status))
    /\ UNCHANGED <<candles, pois, prov, signal, pc, trend>>

\* signal = engine.generate_signal()
WebhookGenerateSignal(t) ==
    /\ At(t, "generate_signal")
    /\ \E sig \in {generate_signal(engines[threads[t].symbol].pois)} :
          threads' = [threads EXCEPT
                         ![t].pc = IF sig.symbol = "ZeroDivisionError"
                                   THEN "idle" ELSE "return",
                         ![t].signal = IF IsSignal(sig)
                                       THEN [sig EXCEPT !.symbol = threads[t].symbol]
                                       ELSE sig]
    /\ UNCHANGED <<engines, candles, pois, prov, signal, pc, trend>>

\* return jsonify(...): the locals of webhook() are gone
WebhookReturn(t) ==
    /\ At(t, "return")
    /\ threads' = [threads EXCEPT ![t] = IdleThread]
    /\ UNCHANGED <<engines, candles, pois, prov, signal, pc, trend>>

NextServer ==
    \/ \E t \in Threads, symbol \in SYMBOLS, shapes \in ServerBatches :
          WebhookAddCandles(t, symbol, shapes)
    \/ \E t \in Threads : WebhookDetect(t)
    \/ \E t \in Threads : WebhookValidatePois(t)
    \/ \E t \in Threads : WebhookGenerateSignal(t)
    \/ \E t \in Threads : WebhookReturn(t)

SpecServer == Init /\ [][NextServer]_vars

----------------------------------------------------------------------------
(* detect_order_blocks of old scripts/smc_logic.py, on a whole window df   *)

\* The body of "for i in range(1, len(df) - 1)" for prev = df.iloc[p - 1]
\* (p counts from 1): nxt = df.iloc[i + 1] is the candle two after prev.
\* The two tests exclude each other, so one pass appends at most one record.
order_block_at(df, p) ==
    LET prev == df[p]
        nxt == df[p + 2]
    IN  [idx |-> p,
         type |-> IF prev.close < prev.open /\ nxt.close > nxt.open
                     /\ nxt.close > prev.open THEN "bullish"
                  ELSE IF prev.close > prev.open /\ nxt.close < nxt.open
                     /\ nxt.close < prev.open THEN "bearish"
                  ELSE "none",
         high |-> prev.high, low |-> prev.low]

IsOrderBlock(ob) == ob.type # "none"

\* obs, in the order of the loop
logic_detect_order_blocks(df) ==
    SelectSeq([p \in 1..(Len(df) - 2) |-> order_block_at(df, p)], IsOrderBlock)

----------------------------------------------------------------------------
(* detect_breaker_blocks of old scripts/smc_logic.py                       *)

\* df['high'].iloc[j] > hh for a bullish order block, df['low'].iloc[j] < ll
\* for a bearish one
Breaks(df, ob, j) ==
    IF ob.type = "bullish" THEN df[j].high > ob.high ELSE df[j].low < ob.low

\* df['low'].iloc[k] >= ll and df['high'].iloc[k] <= hh
Inside(df, ob, k) == df[k].low >= ob.low /\ df[k].high <= ob.high

\* The least member of a set of positions, or 0 when there is none
First(positions) ==
    IF positions = {} THEN 0
    ELSE CHOOSE m \in positions : \A n \in positions : m <= n

\* The loop over j from j to last, which ends at the first break
first_break(df, ob, j, last) == First({ m \in j..last : Breaks(df, ob, m) })

\* The loop over k from k to last, which ends at the first candle inside
first_retest(df, ob, k, last) == First({ m \in k..last : Inside(df, ob, m) })

Breaker(ob, k) ==
    [ob_idx |-> ob.idx,
     type |-> IF ob.type = "bullish" THEN "breaker_bullish" ELSE "breaker_bearish",
     hh |-> ob.high, ll |-> ob.low, retest_idx |-> k]

\* A variant of the body of "for ob in obs" that goes on to the next break
\* when the retest of a break is missing
breaker_of_rescan(df, ob, retest_bars) ==
    LET j == First({ m \in (ob.idx + 1)..Min(Len(df), ob.idx + BOS_WINDOW) :
                       /\ Breaks(df, ob, m)
                       /\ first_retest(df, ob, m + 1,
                                       Min(Len(df), m + retest_bars)) # 0 })
    IN  IF j = 0 THEN <<>>
        ELSE <<Breaker(ob, first_retest(df, ob, j + 1,
                                        Min(Len(df), j + retest_bars)))>>

\* The body of "for ob in obs": the breakers appended for ob.  Positions
\* count from 1: j runs over the 200 bars after ob, k over the retest_bars
\* bars after j; both loops end at their first hit.
breaker_of(df, ob, retest_bars) ==
    LET j == first_break(df, ob, ob.idx + 1, Min(Len(df), ob.idx + BOS_WINDOW))
        k == IF j = 0 THEN 0
             ELSE first_retest(df, ob, j + 1, Min(Len(df), j + retest_bars))
    IN  IF k = 0 THEN <<>> ELSE <<Breaker(ob, k)>>

RECURSIVE breakers_from(_, _, _, _)
breakers_from(df, obs, n, retest_bars) ==
    IF n > Len(obs) THEN <<>>
    ELSE breaker_of(df, obs[n], retest_bars)
             \o breakers_from(df, obs, n + 1, retest_bars)

detect_breaker_blocks(df, obs, retest_bars) == breakers_from(df, obs, 1, retest_bars)

----------------------------------------------------------------------------
(* The trend evaluation: evaluate_single_tf of old scripts/smc_logic.py    *)
(* and generate_trend_table of smc_visual_alerts.py.                        *)
(*                                                                         *)
(* evaluate_single_tf reads its window through six tests; the model takes  *)
(* the number of candles and the outcome of each test as the input.        *)

weights ==
    [ma_slope |-> 25, ma_crossover |-> 20, price_vs_ma |-> 15,
     bull_pct |-> 10, swing_structure |-> 15, poi_support |-> 15]

\* The outcomes of the six tests on a window:
\*   slope        slope > 0.0005 ("bull"), slope < -0.0005 ("bear"), else "flat"
\*   cross_dir    the crossover the loop over the last 10 bars stops at
\*   above        current_close > ma_long
\*   bull_pct     bull_pct > 60 ("high"), bull_pct < 40 ("low"), else "mid"
\*   higher_high  two swing highs, the last above the one before
\*   higher_low   two swing lows, the last above the one before
\*   lower_high   two swing highs, the last below the one before
\*   lower_low    two swing lows, the last below the one before
\*   poi_support  bullish FVGs and order blocks that hold current_close
Factors ==
    { f \in [slope : {"bull", "bear", "flat"}, cross_dir : {"bull", "bear", "none"},
             above : BOOLEAN, bull_pct : {"high", "low", "mid"},
             higher_high : BOOLEAN, higher_low : BOOLEAN,
             lower_high : BOOLEAN, lower_low : BOOLEAN,
             poi_support : 0..MaxSupport] :
        /\ ~(f.higher_high /\ f.lower_high)
        /\ ~(f.higher_low /\ f.lower_low) }

\* The sign of ema_short_series - ema_long_series at the last CROSS_BARS + 1
\* bars, the oldest first: position p stands for iloc[p - CROSS_BARS - 2].
\* Each close moves the difference of the two averages by a nonzero multiple
\* of itself, so a window of closes exists for every sequence of signs.
EmaRelations == [1..(CROSS_BARS + 1) -> {-1, 0, 1}]

\* The two tests of the loop body at position p against position p - 1
cross_at(rel, p) ==
    IF rel[p] > 0 /\ rel[p - 1] <= 0 THEN "bull"
    ELSE IF rel[p] < 0 /\ rel[p - 1] >= 0 THEN "bear"
    ELSE "none"

\* "for i in range(-recent, -1)" with recent = CROSS_BARS: the positions
\* iloc[-recent] .. iloc[-2], left at the first test that succeeds
cross_dir(rel) ==
    LET p == First({ q \in 2..CROSS_BARS : cross_at(rel, q) # "none" })
    IN  IF p = 0 THEN "none" ELSE cross_at(rel, p)

\* What "if cross and cross_dir == 'bull' ... elif ..." adds to score
crossover_term(dir) ==
    IF dir = "bull" THEN weights.ma_crossover
    ELSE IF dir = "bear" THEN -weights.ma_crossover ELSE 0

\* mss_signal: set to 'bull' by either comparison, and by nothing else
mss_signal(f) == IF f.higher_high \/ f.higher_low THEN "bull" ELSE "none"

\* A variant that adds the POI weight once per supporting POI
ContributionsPerPoi(f) ==
    << IF f.slope = "bull" THEN weights.ma_slope
       ELSE IF f.slope = "bear" THEN -weights.ma_slope ELSE 0,
       IF f.cross_dir = "bull" THEN weights.ma_crossover
       ELSE IF f.cross_dir = "bear" THEN -weights.ma_crossover ELSE 0,
       IF f.above THEN weights.price_vs_ma ELSE -weights.price_vs_ma,
       IF f.bull_pct = "high" THEN weights.bull_pct
       ELSE IF f.bull_pct = "low" THEN -weights.bull_pct ELSE 0,
       IF mss_signal(f) = "bull" THEN weights.swing_structure ELSE 0,
       f.poi_support * weights.poi_support >>

\* The terms that the six if/elif statements add to score, in their order
Contributions(f) ==
    << IF f.slope = "bull" THEN weights.ma_slope
       ELSE IF f.slope = "bear" THEN -weights.ma_slope ELSE 0,
       crossover_term(f.cross_dir),
       IF f.above THEN weights.price_vs_ma ELSE -weights.price_vs_ma,
       IF f.bull_pct = "high" THEN weights.bull_pct
       ELSE IF f.bull_pct = "low" THEN -weights.bull_pct ELSE 0,
       IF mss_signal(f) = "bull" THEN weights.swing_structure
       ELSE IF mss_signal(f) = "bear" THEN -weights.swing_structure ELSE 0,
       IF f.poi_support > 0 THEN weights.poi_support ELSE 0 >>

RECURSIVE Sum(_)
Sum(terms) == IF terms = <<>> THEN 0 ELSE Head(terms) + Sum(Tail(terms))

Score(f) == Sum(Contributions(f))

\* max_score = sum(weights.values())
max_score ==
    weights.ma_slope + weights.ma_crossover + weights.price_vs_ma
        + weights.bull_pct + weights.swing_structure + weights.poi_support

\* round(num / den) of Python 3 for den > 0: to the nearest integer, a half
\* to the even neighbour
Round(num, den) ==
    LET q == num \div den
        r == num % den
    IN  IF 2 * r < den THEN q
        ELSE IF 2 * r > den THEN q + 1
        ELSE IF q % 2 = 0 THEN q ELSE q + 1

\* The scores whose norm * 100 is an exact half that the doubles of
\* (score + max_score) / (2 * max_score) * 100 miss from below:
\* (15 + 100) / 200 * 100 = 57.49999999999999
BelowHalf == {15}

\* A variant that normalizes with the score range -85 .. +85
ConfidenceOf85(score) == Round(100 * (score + 85), 2 * 85)

\* A variant that normalizes the strength of the score, whatever its sign
ConfidenceOfStrength(score) ==
    Round(100 * (Abs(score) + max_score), 2 * max_score)

\* norm = (score + max_score) / (2 * max_score); int(round(norm * 100))
ConfidenceOf(score) ==
    IF score \in BelowHalf
    THEN Round(100 * (score + max_score), 2 * max_score) - 1
    ELSE Round(100 * (score + max_score), 2 * max_score)

\* A variant with the threshold at the middle of the confidence range
TrendLabelAboveHalf(confidence, score) ==
    IF 2 * confidence >= 100 /\ score > 0 THEN "Bull"
    ELSE IF 2 * confidence >= 100 /\ score < 0 THEN "Bear"
    ELSE "Sideways"

\* if confidence >= 60 and score > 0: ... elif confidence >= 60 and score < 0: ...
TrendLabel(confidence, score) ==
    IF confidence >= TREND_CONFIDENCE /\ score > 0 THEN "Bull"
    ELSE IF confidence >= TREND_CONFIDENCE /\ score < 0 THEN "Bear"
    ELSE "Sideways"

\* The reasons appended along the six statements
Reasons(f) ==
    (IF f.slope = "bull" THEN <<"MA slope bullish">>
     ELSE IF f.slope = "bear" THEN <<"MA slope bearish">> ELSE <<>>)
    \o (IF f.cross_dir = "bull" THEN <<"Recent MA crossover bullish">>
        ELSE IF f.cross_dir = "bear" THEN <<"Recent MA crossover bearish">> ELSE <<>>)
    \o (IF f.above THEN <<"Price above long MA">> ELSE <<"Price below long MA">>)
    \o (IF f.bull_pct = "high" THEN <<"Strong bullish candles ratio">>
        ELSE IF f.bull_pct = "low" THEN <<"Strong bearish candles ratio">> ELSE <<>>)
    \o (IF mss_signal(f) = "bull" THEN <<"Market structure bullish (HH/HL)">> ELSE <<>>)
    \o (IF f.poi_support > 0 THEN <<"POI support">> ELSE <<>>)

\* evaluate_single_tf(df, instrument) for a window of bars candles
evaluate_single_tf(bars, f) ==
    IF bars < TREND_MIN_BARS
    THEN [trend |-> "Sideways", confidence |-> 0, reasons |-> <<"Insufficient data">>]
    ELSE [trend |-> TrendLabel(ConfidenceOf(Score(f)), Score(f)),
          confidence |-> ConfidenceOf(Score(f)),
          reasons |-> Reasons(f)]

\* SMCEngine.detect_structure(tf)['direction']
detect_structure(series) ==
    IF Len(series) < STRUCTURE_MIN_CANDLES THEN "unknown"
    ELSE LET lst == FromEnd(series, 1)
             prev == FromEnd(series, 2)
         IN  IF lst.high > prev.high /\ lst.low > prev.low THEN "bullish"
             ELSE IF lst.high < prev.high /\ lst.low < prev.low THEN "bearish"
             ELSE "ranging"

\* generate_trend_table(engine)
generate_trend_table(cs) ==
    [tf \in DOMAIN cs |->
        [direction |-> detect_structure(cs[tf]),
         confidence |-> Min(TABLE_CAP, Len(cs[tf]) * TABLE_STEP)]]

\* The series the trend table is asked about: dojis, then up to two candles
\* of any shape
TableSeries ==
    { [k \in 1..n |-> Candle(Payload(Doji, k))] \o
      [k \in 1..Len(tail) |-> Candle(Payload(tail[k], n + k))] :
        n \in 0..(MaxBars - 2), tail \in UNION { [1..m -> CandleShapes] : m \in 0..2 } }

\* The two functions keep no state: a behaviour of SpecTrend is one call.
EvaluateSingleTf ==
    /\ trend = NoTrend
    /\ \E bars \in 0..MaxBars, f \in Factors :
          trend' = [function |-> "evaluate_single_tf", bars |-> bars,
                    factors |-> f,
                    score |-> IF bars < TREND_MIN_BARS THEN 0 ELSE Score(f),
                    terms |-> IF bars < TREND_MIN_BARS THEN <<>>
                              ELSE Contributions(f),
                    out |-> evaluate_single_tf(bars, f)]
    /\ UNCHANGED <<candles, pois, prov, signal, pc, engines, threads>>

GenerateTrendTable ==
    /\ trend = NoTrend
    /\ \E series \in TableSeries :
       \E cs \in {[tf \in TFs |-> IF tf = PRIMARY_TF THEN series ELSE <<>>]} :
          trend' = [function |-> "generate_trend_table", candles |-> cs,
                    out |-> generate_trend_table(cs)]
    /\ UNCHANGED <<candles, pois, prov, signal, pc, engines, threads>>

\* The crossover test of evaluate_single_tf on one window
MaCrossover ==
    /\ trend = NoTrend
    /\ \E rel \in EmaRelations :
          trend' = [function |-> "ma_crossover", rel |-> rel,
                    cross_dir |-> cross_dir(rel),
                    term |-> crossover_term(cross_dir(rel))]
    /\ UNCHANGED <<candles, pois, prov, signal, pc, engines, threads>>

NextTrend ==
    \/ EvaluateSingleTf
    \/ MaCrossover
    \/ GenerateTrendTable

SpecTrend == Init /\ [][NextTrend]_vars

----------------------------------------------------------------------------
(* The detectors of old scripts/smc_logic.py, each called on one window.   *)

\* ---------------------------------------------------------------------------
\* detect_swing_structure of old scripts/smc_logic.py
\* ---------------------------------------------------------------------------

\* df[column].iloc[i - left:i + right + 1] for the position i (from 1)
SwingWindow(i, left, right) == (i - left)..(i + right)

\* window_high.max() and window_low.min()
WindowMax(df, i, left, right) ==
    CHOOSE v \in { df[k].high : k \in SwingWindow(i, left, right) } :
        \A k \in SwingWindow(i, left, right) : df[k].high <= v

WindowMin(df, i, left, right) ==
    CHOOSE v \in { df[k].low : k \in SwingWindow(i, left, right) } :
        \A k \in SwingWindow(i, left, right) : df[k].low >= v

\* for i in range(left, n - right), positions counted from 1
SwingRange(df, left, right) == [k \in 1..(Len(df) - left - right) |-> k + left]

\* highs and lows, the positions appended in the order of the loop
detect_swing_structure(df, left, right) ==
    [highs |-> SelectSeq(SwingRange(df, left, right),
                         LAMBDA i : df[i].high = WindowMax(df, i, left, right)),
     lows |-> SelectSeq(SwingRange(df, left, right),
                        LAMBDA i : df[i].low = WindowMin(df, i, left, right))]


\* ---------------------------------------------------------------------------
\* detect_liquidity_pools of old scripts/smc_logic.py.  The prices of its
\* windows are points of 0.00001, which round(4) turns into levels of 0.0001.
\* ---------------------------------------------------------------------------

\* series.round(4) of one price
round4(price) == Round(price, POINTS_PER_LEVEL)

\* df[column].round(4).value_counts(): level -> number of rows at that level
value_counts(df, column) ==
    [v \in { round4(df[k][column]) : k \in 1..Len(df) } |->
        Cardinality({ k \in 1..Len(df) : round4(df[k][column]) = v })]

\* The rows appended for one column: "if cnt >= 2: pools.append(...)"
pools_of(counts, type) ==
    { [level |-> v, type |-> type, count |-> counts[v]] :
        v \in { w \in DOMAIN counts : counts[w] >= 2 } }

\* detect_liquidity_pools(df, window): the rolling maxima and minima over
\* window are computed and never read, so window has no effect.  The list
\* pools holds no row twice; it is modelled by the set of its rows.
logic_detect_liquidity_pools(df, window) ==
    pools_of(value_counts(df, "high"), "high")
        \cup pools_of(value_counts(df, "low"), "low")


\* The candle shapes of the windows:
\*   a bearish and a bullish candle with the band 4 .. 10, a bullish and a
\*   bearish candle inside that band, a doji below it and a doji above it
LogicShapes ==
    { [open |-> 6, high |-> 10, low |-> 4, close |-> 4],
      [open |-> 8, high |-> 10, low |-> 4, close |-> 10],
      [open |-> 4, high |-> 8, low |-> 4, close |-> 8],
      [open |-> 10, high |-> 10, low |-> 6, close |-> 6],
      [open |-> 2, high |-> 2, low |-> 2, close |-> 2],
      [open |-> 12, high |-> 12, low |-> 12, close |-> 12] }

Frame(shapes) == [k \in 1..Len(shapes) |-> Candle(Payload(shapes[k], k))]

Windows == { Frame(shapes) : shapes \in UNION { [1..n -> LogicShapes] : n \in 0..MaxWindow } }

\* Windows as long as the two searches: a bearish candle, a bullish close
\* two candles later, n dojis below the band, a doji above it, m dojis below
\* it, a second doji above it and a candle inside it
LongWindow(n, m) ==
    Frame([k \in 1..(n + m + 6) |->
             IF k = 1 THEN [open |-> 6, high |-> 10, low |-> 4, close |-> 4]
             ELSE IF k = 3 \/ k = n + m + 6
             THEN [open |-> 4, high |-> 8, low |-> 4, close |-> 8]
             ELSE IF k = n + 4 \/ k = n + m + 5
             THEN [open |-> 12, high |-> 12, low |-> 12, close |-> 12]
             ELSE [open |-> 2, high |-> 2, low |-> 2, close |-> 2]])

LongWindows ==
    { LongWindow(n, m) : n \in {0} \cup (BOS_WINDOW - 4)..(BOS_WINDOW - 2),
                         m \in {0} \cup (RETEST_BARS - 3)..(RETEST_BARS - 1) }

\* The values of retest_bars the function is called with
RetestBars == {1, 2, RETEST_BARS}

\* obs = detect_order_blocks(df); breakers = detect_breaker_blocks(df, obs)
DetectBreakerBlocks ==
    /\ trend = NoTrend
    /\ \E df \in Windows \cup LongWindows, retest_bars \in RetestBars :
       \E obs \in {logic_detect_order_blocks(df)} :
          trend' = [function |-> "detect_breaker_blocks", df |-> df, obs |-> obs,
                    retest_bars |-> retest_bars,
                    out |-> detect_breaker_blocks(df, obs, retest_bars)]
    /\ UNCHANGED <<candles, pois, prov, signal, pc, engines, threads>>

\* The values of left and right the function is called with
SwingSpans == {1, 2}

\* swings_h, swings_l = detect_swing_structure(df, left, right)
DetectSwingStructure ==
    /\ trend = NoTrend
    /\ \E df \in Windows, left \in SwingSpans, right \in SwingSpans :
          trend' = [function |-> "detect_swing_structure", df |-> df,
                    left |-> left, right |-> right,
                    out |-> detect_swing_structure(df, left, right)]
    /\ UNCHANGED <<candles, pois, prov, signal, pc, engines, threads>>

\* The rows of the windows given to detect_liquidity_pools, in points
PoolBars ==
    { [high |-> 300, low |-> 100], [high |-> 304, low |-> 100],
      [high |-> 296, low |-> 104], [high |-> 320, low |-> 120] }

PoolWindows == UNION { [1..n -> PoolBars] : n \in 0..MaxWindow }

\* Windows about as long as the default of window: the same row n times
LongPoolWindows ==
    { [k \in 1..n |-> [high |-> 300, low |-> 100]] :
        n \in (POOL_WINDOW - 1)..(POOL_WINDOW + 2) }

\* The values of window the function is called with
PoolSpans == {2, 3, POOL_WINDOW}

\* pools = detect_liquidity_pools(df, window)
DetectLiquidityPools ==
    /\ trend = NoTrend
    /\ \E df \in PoolWindows \cup LongPoolWindows, window \in PoolSpans :
          trend' = [function |-> "detect_liquidity_pools", df |-> df,
                    window |-> window,
                    out |-> logic_detect_liquidity_pools(df, window)]
    /\ UNCHANGED <<candles, pois, prov, signal, pc, engines, threads>>

NextLogic ==
    \/ DetectBreakerBlocks
    \/ DetectLiquidityPools
    \/ DetectSwingStructure

SpecLogic == Init /\ [][NextLogic]_vars

----------------------------------------------------------------------------
(* Properties                                                              *)

Idle == pc = "idle"

Low(poi) == Min(poi.start, poi.end)

High(poi) == Max(poi.start, poi.end)

\* C1: after any sequence of add_candles calls the timestamps of every
\* (symbol, timeframe) series are strictly increasing: a candle whose
\* timestamp is not after the last stored one is rejected, never stored.
C1_TimestampsStrictlyIncrease ==
    \A tf \in TFs : \A i, j \in 1..Len(candles[tf]) :
        i < j => candles[tf][i].timestamp < candles[tf][j].timestamp

\* The POIs that detect_fvgs built for the triple of tf that starts at i
GapPois(tf, i) ==
    { k \in 1..Len(pois) :
        /\ pois[k].poi_type = "FVG"
        /\ prov[k] = Origin("detect_fvgs", tf, i) }

\* C2: when every add_candles call was followed by a detector run, every
\* three consecutive candles (b1, b2, b3) of a series with b1.low > b3.high
\* have exactly one bullish FVG POI with band [b3.high, b1.low] in the list.
C2_EveryBullishGapReportedOnce ==
    Idle =>
    \A tf \in TFs : \A i \in 1..(Len(candles[tf]) - 2) :
        LET b1 == candles[tf][i]
            b3 == candles[tf][i + 2]
        IN  b1.low > b3.high =>
                /\ Cardinality(GapPois(tf, i)) = 1
                /\ \A k \in GapPois(tf, i) :
                      /\ pois[k].direction = "bullish"
                      /\ Low(pois[k]) = b3.high
                      /\ High(pois[k]) = b1.low

\* The POIs validate_fvgs appended when it invalidated pois[k]
InversesOf(k) ==
    { m \in 1..Len(pois) : prov[m].by = "validate_fvgs" /\ prov[m].at = k }

\* Some candle at least 3 bars after the first candle of the gap of pois[k]
\* closes inside the band of the gap, bounds included
ClosedInside(k) ==
    \E j \in (prov[k].at + 3)..Len(candles[prov[k].tf]) :
        /\ candles[prov[k].tf][j].close >= Low(pois[k])
        /\ candles[prov[k].tf][j].close <= High(pois[k])

\* C3: after validate_pois, a detected FVG is invalid, with exactly one
\* inverse FVG POI of the opposite direction and the same band, if and only
\* if some candle at least 3 bars after the gap's first candle closed inside
\* the band; otherwise it is valid and has no inverse POI.
C3_InvalidatedIffClosedInside ==
    Idle =>
    \A k \in 1..Len(pois) :
        (pois[k].poi_type = "FVG" /\ prov[k].by = "detect_fvgs") =>
            /\ ~pois[k].validated <=> ClosedInside(k)
            /\ Cardinality(InversesOf(k)) = IF ClosedInside(k) THEN 1 ELSE 0
            /\ \A m \in InversesOf(k) :
                  /\ pois[m].poi_type = "FVG"
                  /\ pois[m].direction = Opposite(pois[k].direction)
                  /\ Low(pois[m]) = Low(pois[k])
                  /\ High(pois[m]) = High(pois[k])

SameRecord(p, q) ==
    /\ p.poi_type = q.poi_type
    /\ p.direction = q.direction
    /\ p.start = q.start
    /\ p.end = q.end

NoTwoInversesAlike(ps, pv) ==
    \A m, n \in 1..Len(ps) :
        (m < n /\ pv[m].by = "validate_fvgs" /\ pv[n].by = "validate_fvgs")
            => ~SameRecord(ps[m], ps[n])

\* C4: validate_pois called again with no new candle appends no POI and
\* changes no validity flag, and no call that returns leaves two POIs of the
\* same kind, direction and band that both arose from an invalidation.
C4_ValidateIdempotentOneInverse ==
    [][ /\ ValidatePois => pois' = pois
        /\ pc' = "idle" => NoTwoInversesAlike(pois', prov') ]_vars

\* Why a loop that reached MaxPois does not return: the candles it reads
\* invalidate both a gap and the inverse the loop appended for it, so every
\* inverse it appends is invalidated in turn and inverted again.
LoopingRepeats ==
    pc = "validate_fvgs" =>
        \E k, m \in 1..Len(pois) :
            /\ m \in InversesOf(k)
            /\ ~pois[k].validated /\ ~pois[m].validated
            /\ scan_fill(pois[k], LastN(candles[PRIMARY_TF], FILL_WINDOW), 1) = "fill"
            /\ scan_fill(pois[m], LastN(candles[PRIMARY_TF], FILL_WINDOW), 1) = "fill"

\* C5: every validate_pois call returns: the engine is never left inside
\* the loop of validate_fvgs, invalidating the inverse POIs that the same
\* loop appended.
C5_ValidatePoisReturns == pc # "validate_fvgs"

Kinds == {"FVG", "OB", "BB", "Liquidity"}

\* The confluence score of the Signal derived from ps[i]: the kinds of which
\* the list holds a POI with the direction of ps[i]
ScoreAt(ps, i) ==
    Cardinality({ kind \in Kinds :
        \E k \in 1..Len(ps) : ps[k].poi_type = kind /\ ps[k].direction = ps[i].direction })

Qualifying(ps) ==
    { i \in 1..Len(ps) :
        /\ ps[i].validated
        /\ ps[i].poi_type \in {"FVG", "OB", "BB"}
        /\ ScoreAt(ps, i) >= 2 }

Earliest(S) == CHOOSE i \in S : \A j \in S : i <= j

\* C6: generate_signal returns the Signal of the earliest-created POI that
\* is validated, of kind FVG, OB or BB, and whose confluence score is at
\* least 2, and returns nothing if and only if there is no such POI.
C6_SignalOfEarliestQualifying ==
    Idle =>
        IF Qualifying(pois) = {}
        THEN signal = NoSignal
        ELSE /\ IsSignal(signal)
             /\ signal.poi = Earliest(Qualifying(pois))
             /\ signal.confluence_score = ScoreAt(pois, signal.poi)
             /\ signal.direction = IF pois[signal.poi].direction = "bullish"
                                   THEN "long" ELSE "short"

ValidatedPoi(kind, direction) ==
    \E k \in 1..Len(pois) :
        pois[k].validated /\ pois[k].poi_type = kind /\ pois[k].direction = direction

\* A long signal of score 2 from a valid bullish FVG and a valid bullish OB
C6_Witness ==
    /\ Idle
    /\ IsSignal(signal)
    /\ signal.direction = "long"
    /\ signal.confluence_score = 2
    /\ signal.confluence.fvg /\ signal.confluence.order_block
    /\ pois[signal.poi].poi_type = "FVG"
    /\ ValidatedPoi("OB", "bullish")

\* C7: in every Signal returned, each confluence entry is true if and only
\* if the list holds a validated POI of that kind with the direction of the
\* triggering POI.
C7_ConfluenceCountsValidatedOnly ==
    (Idle /\ IsSignal(signal)) =>
        LET d == pois[signal.poi].direction
        IN  /\ signal.confluence.fvg <=> ValidatedPoi("FVG", d)
            /\ signal.confluence.order_block <=> ValidatedPoi("OB", d)
            /\ signal.confluence.breaker_block <=> ValidatedPoi("BB", d)
            /\ signal.confluence.liquidity_sweep <=> ValidatedPoi("Liquidity", d)

\* C8: a long Signal enters at the low edge of the triggering POI's band,
\* stops at the high edge and targets entry + 1.5 |entry - stop|, above the
\* entry; a short Signal enters at the high edge, stops at the low edge and
\* targets entry - 1.5 |entry - stop|, below the entry.
C8_SignalGeometry ==
    (Idle /\ IsSignal(signal)) =>
        LET poi == pois[signal.poi]
            risk == Abs(signal.entry - signal.stop)
        IN  IF signal.direction = "long"
            THEN /\ signal.entry = Low(poi)
                 /\ signal.stop = High(poi)
                 /\ 2 * signal.target = 2 * signal.entry + 3 * risk
                 /\ signal.target > signal.entry
            ELSE /\ signal.entry = High(poi)
                 /\ signal.stop = Low(poi)
                 /\ 2 * signal.target = 2 * signal.entry - 3 * risk
                 /\ signal.target < signal.entry

\* C9: every POI of the list, of every kind, has start <= end.
C9_BandOrdered ==
    \A k \in 1..Len(pois) : pois[k].start <= pois[k].end

\* C10: the POI list is an append-only log: every step keeps every POI at
\* its position with its kind, direction, band and creation timestamp, and
\* a validity flag only goes from valid to invalid.
C10_PoiLogAppendOnly ==
    [][ /\ Len(pois') >= Len(pois)
        /\ \A k \in 1..Len(pois) :
              /\ SameRecord(pois'[k], pois[k])
              /\ pois'[k].created_at = pois[k].created_at
              /\ pois'[k].validated => pois[k].validated ]_vars

\* A POI that was invalidated, still in the list, with its inverse after it
C10_Witness ==
    /\ Idle
    /\ \E k \in 1..Len(pois) :
          /\ ~pois[k].validated
          /\ InversesOf(k) # {}
          /\ Len(pois) > k + 1

\* C11: when a batch passed to add_candles contains a malformed candle (one
\* with a field missing), only that candle is rejected: every well-formed
\* candle of the batch, before and after the malformed one, is appended.
C11_OnlyMalformedRejected ==
    [][ \A tf \in TFs, candle_list \in TimedBatches :
            AddCandles(tf, candle_list) =>
                candles'[tf] = add_candles_skipping(candles[tf], candle_list) ]_vars

C13_RrIsPositiveRatio ==
    IsSignal(signal) =>
        /\ signal.rr.num = Abs(signal.target - signal.entry)
        /\ signal.rr.den = Abs(signal.entry - signal.stop)
        /\ signal.rr.num > 0
        /\ signal.rr.den > 0

\* A short signal was returned: target < entry < stop
C13_Witness ==
    /\ IsSignal(signal)
    /\ signal.direction = "short"
    /\ signal.target < signal.entry
    /\ signal.entry < signal.stop

InFlight(t) == threads[t].pc # "idle"

\* C14: webhook deliveries for the same symbol are serialized: the steps
\* add_candles, detect, validate_pois, generate_signal of one delivery never
\* interleave with the steps of another delivery on the same engine.
C14_DeliveriesSerialized ==
    \A t, u \in Threads :
        t # u /\ InFlight(t) /\ InFlight(u) => threads[t].symbol # threads[u].symbol

\* C15: processing a webhook delivery (add_candles, the detectors,
\* validate_pois, generate_signal) for one symbol never changes the candle
\* series or the POI list of any other symbol's engine.
C15_OtherEnginesUnchanged ==
    [][ \A t \in Threads :
            threads'[t] # threads[t] =>
                \A symbol \in SYMBOLS \ {threads'[t].symbol} :
                    /\ engines'[symbol].candles = engines[symbol].candles
                    /\ engines'[symbol].pois = engines[symbol].pois ]_vars

\* A delivery for one symbol appended POIs while the engine of the other
\* symbol held candles and POIs of its own
C15_Witness ==
    \E t \in Threads : \E symbol \in SYMBOLS \ {threads[t].symbol} :
        /\ threads[t].pc = "return"
        /\ IsSignal([threads[t].signal EXCEPT !.symbol = SYMBOL])
        /\ engines[threads[t].symbol].pois # <<>>
        /\ engines[symbol].candles[PRIMARY_TF] # <<>>
        /\ engines[symbol].pois # <<>>

Evaluated == trend.function = "evaluate_single_tf"

Tabled == trend.function = "generate_trend_table"

\* C16: for a timeframe with fewer than 10 candles the trend evaluation
\* returns confidence 0 with the single reason "Insufficient data" and a trend
\* label of Unknown/Sideways, without raising.
C16_InsufficientData ==
    /\ Evaluated /\ trend.bars < TREND_MIN_BARS =>
          /\ trend.out.confidence = 0
          /\ trend.out.reasons = <<"Insufficient data">>
          /\ trend.out.trend \in {"Unknown", "Sideways"}
    /\ Tabled =>
          \A tf \in TFs :
              Len(trend.candles[tf]) < TREND_MIN_BARS =>
                  /\ trend.out[tf].confidence = 0
                  /\ trend.out[tf].direction \in {"unknown", "Unknown", "Sideways"}

\* C17: for every input window (every combination of the six factor
\* contributions) the trend confidence is an integer with
\* 0 <= confidence <= 100.
C17_ConfidenceBounded ==
    /\ Evaluated => trend.out.confidence \in 0..100
    /\ Tabled => \A tf \in TFs : trend.out[tf].confidence \in 0..100

\* All six tests of a window of 10 candles or more came out bullish
C17_Witness ==
    /\ Evaluated
    /\ trend.bars >= TREND_MIN_BARS
    /\ trend.score = max_score
    /\ trend.out.confidence = 100

\* C18: the trend label is Bull exactly when confidence >= 60 and score > 0,
\* Bear exactly when confidence >= 60 and score < 0, and Sideways in every
\* other case with at least 10 candles.
C18_TrendLabel ==
    Evaluated /\ trend.bars >= TREND_MIN_BARS =>
        LET high == trend.out.confidence >= 60
        IN  /\ trend.out.trend = "Bull" <=> (high /\ trend.score > 0)
            /\ trend.out.trend = "Bear" <=> (high /\ trend.score < 0)
            /\ trend.out.trend = "Sideways" <=> ~(high /\ trend.score # 0)

\* A window of 10 candles or more was labelled Bull
C18_Witness ==
    /\ Evaluated
    /\ trend.bars >= TREND_MIN_BARS
    /\ trend.out.trend = "Bull"
    /\ trend.out.confidence >= 60
    /\ trend.score > 0

\* C19, as written: the raw trend score always lies in [-85, +85] for every
\* combination of factor contributions, and confidence is computed as
\* round(100 x (score + 85) / 170).
C19_ScoreWithin85 ==
    Evaluated /\ trend.bars >= TREND_MIN_BARS =>
        /\ trend.score \in -85..85
        /\ trend.out.confidence = Round(100 * (trend.score + 85), 170)

\* C19, amended: the raw trend score always lies in [-100, +100] (the six
\* weights sum to 100) for every combination of factor contributions, and
\* confidence is 100 x (score + 100) / 200 rounded to a nearest integer.
C19_ScoreWithin100 ==
    Evaluated /\ trend.bars >= TREND_MIN_BARS =>
        /\ trend.score \in -100..100
        /\ Abs(200 * trend.out.confidence - 100 * (trend.score + 100)) <= 100

\* A window whose score is above 85
C19_Witness ==
    /\ Evaluated
    /\ trend.bars >= TREND_MIN_BARS
    /\ trend.score > 85
    /\ trend.out.confidence = Round(100 * (trend.score + 100), 200)

\* The rule of C20 for the candle at position i of series and a direction
OrderBlockRule(series, i, direction) ==
    /\ i + 2 <= Len(series)
    /\ IF direction = "bullish"
       THEN /\ series[i].close < series[i].open
            /\ series[i + 2].close > series[i + 2].open
            /\ series[i + 2].close > series[i].open
       ELSE /\ series[i].close > series[i].open
            /\ series[i + 2].close < series[i + 2].open
            /\ series[i + 2].close < series[i].open

\* The order-block POIs the engine built for the candle at position i of tf
BlockPois(tf, i, direction) ==
    { k \in 1..Len(pois) :
        /\ pois[k].poi_type = "OB"
        /\ pois[k].direction = direction
        /\ prov[k] = Origin("detect_order_blocks", tf, i) }

\* The order blocks the function of smc_logic.py reports for position i
BlocksOf(df, i, direction) ==
    { k \in 1..Len(logic_detect_order_blocks(df)) :
        /\ logic_detect_order_blocks(df)[k].idx = i
        /\ logic_detect_order_blocks(df)[k].type = direction }

\* C20: a bullish order block is recorded for a candle exactly when that
\* candle closed bearish (close < open) and the candle two positions later
\* closes bullish (close > open) with its close above the first candle's
\* open; the bearish case is the mirror; the recorded band is
\* [candle.low, candle.high] of the order-block candle.
C20_OrderBlockRule ==
    Idle =>
        \A tf \in FedTFs : \A i \in 1..Len(candles[tf]) :
        \A direction \in {"bullish", "bearish"} :
            /\ BlocksOf(candles[tf], i, direction) # {}
                  <=> OrderBlockRule(candles[tf], i, direction)
            /\ \A k \in BlocksOf(candles[tf], i, direction) :
                  /\ logic_detect_order_blocks(candles[tf])[k].low = candles[tf][i].low
                  /\ logic_detect_order_blocks(candles[tf])[k].high = candles[tf][i].high
            /\ BlockPois(tf, i, direction) # {}
                  <=> OrderBlockRule(candles[tf], i, direction)
            /\ \A k \in BlockPois(tf, i, direction) :
                  /\ Low(pois[k]) = candles[tf][i].low
                  /\ High(pois[k]) = candles[tf][i].high

Called(function) == trend.function = function

\* The breakers reported for the order block ob
BreakersOf(ob) == { b \in 1..Len(trend.out) : trend.out[b].ob_idx = ob.idx }

\* C21: an order block is promoted to a breaker block only if a break through
\* its band in its direction occurs within 200 bars after it and, strictly
\* after that first break and within the next retest_bars (10) bars, some
\* candle lies fully inside the band; only the first break is examined, so
\* each order block yields at most one breaker.
C21_BreakerAfterFirstBreak ==
    Called("detect_breaker_blocks") =>
        \A n \in 1..Len(trend.obs) :
            LET ob == trend.obs[n]
                df == trend.df
                breaks == { j \in (ob.idx + 1)..Len(df) :
                              /\ j <= ob.idx + 200
                              /\ IF ob.type = "bullish" THEN df[j].high > ob.high
                                 ELSE df[j].low < ob.low }
            IN  /\ Cardinality(BreakersOf(ob)) <= 1
                /\ \A b \in BreakersOf(ob) :
                      /\ breaks # {}
                      /\ \E j \in breaks :
                            /\ \A m \in breaks : j <= m
                            /\ trend.out[b].retest_idx > j
                            /\ trend.out[b].retest_idx <= j + trend.retest_bars
                            /\ df[trend.out[b].retest_idx].low >= ob.low
                            /\ df[trend.out[b].retest_idx].high <= ob.high

\* An order block was promoted: its first break has a retest
C21_Witness ==
    /\ Called("detect_breaker_blocks")
    /\ Len(trend.obs) > 0
    /\ Len(trend.out) > 0

\* The first break of an order block has no retest in time and a later break
\* has one: no breaker is reported
C21_WitnessFirstBreakOnly ==
    /\ Called("detect_breaker_blocks")
    /\ \E n \in 1..Len(trend.obs) :
          /\ BreakersOf(trend.obs[n]) = {}
          /\ breaker_of_rescan(trend.df, trend.obs[n], trend.retest_bars) # <<>>

\* The positions of a sequence of positions
Reported(positions) == { positions[k] : k \in 1..Len(positions) }

\* C22: detect_swing_structure reports position i as a swing high if and only
\* if its high is the maximum of the closed window [i-left, i+right], and when
\* several positions of one window share that maximum only the first of them
\* is reported (likewise for swing lows with the minimum of low).
C22_SwingIsFirstExtreme ==
    Called("detect_swing_structure") =>
        LET df == trend.df
            inner == (trend.left + 1)..(Len(df) - trend.right)
            window(i) == (i - trend.left)..(i + trend.right)
        IN  /\ Reported(trend.out.highs) \subseteq inner
            /\ Reported(trend.out.lows) \subseteq inner
            /\ \A i \in inner :
                  /\ i \in Reported(trend.out.highs) <=>
                        /\ \A k \in window(i) : df[k].high <= df[i].high
                        /\ \A k \in window(i) : k < i => df[k].high < df[i].high
                  /\ i \in Reported(trend.out.lows) <=>
                        /\ \A k \in window(i) : df[k].low >= df[i].low
                        /\ \A k \in window(i) : k < i => df[k].low > df[i].low

\* What the function does: every position whose high (low) equals the
\* maximum (minimum) of its window is reported, ties included
C22_SwingIsExtreme ==
    Called("detect_swing_structure") =>
        LET df == trend.df
            inner == (trend.left + 1)..(Len(df) - trend.right)
            window(i) == (i - trend.left)..(i + trend.right)
        IN  /\ Reported(trend.out.highs) \subseteq inner
            /\ Reported(trend.out.lows) \subseteq inner
            /\ \A i \in inner :
                  /\ i \in Reported(trend.out.highs) <=>
                        \A k \in window(i) : df[k].high <= df[i].high
                  /\ i \in Reported(trend.out.lows) <=>
                        \A k \in window(i) : df[k].low >= df[i].low

\* Two positions of one window that share its maximum are both reported
C22_TieReportedTwice ==
    /\ Called("detect_swing_structure")
    /\ \E i, k \in Reported(trend.out.highs) :
          /\ k < i
          /\ i - k <= trend.left
          /\ trend.df[k].high = trend.df[i].high

\* The positions the crossover loop examines at which the averages crossed
Crossings(rel, dir) == { p \in 2..CROSS_BARS : cross_at(rel, p) = dir }

\* C23: the crossover factor uses the most recent fast/slow EMA crossover
\* among the last 10 bars: when both a bullish and a bearish crossover occur
\* in those bars, the later one decides the sign of the 20-point contribution.
C23_LatestCrossoverDecides ==
    Called("ma_crossover") =>
        \A later \in {"bull", "bear"} :
            (/\ Crossings(trend.rel, "bull") # {}
             /\ Crossings(trend.rel, "bear") # {}
             /\ \E p \in Crossings(trend.rel, later) :
                   \A q \in Crossings(trend.rel, "bull")
                             \cup Crossings(trend.rel, "bear") : q <= p)
            => /\ trend.cross_dir = later
               /\ trend.term = IF later = "bull" THEN 20 ELSE -20

\* What the loop does: the earliest crossover it examines decides
C23_EarliestCrossoverDecides ==
    Called("ma_crossover") =>
        \A dir \in {"bull", "bear"} :
            (\E p \in Crossings(trend.rel, dir) :
                \A q \in Crossings(trend.rel, "bull")
                          \cup Crossings(trend.rel, "bear") : p <= q)
            => /\ trend.cross_dir = dir
               /\ trend.term = IF dir = "bull" THEN 20 ELSE -20

\* A bullish crossover followed by a bearish one counts as bullish
C23_EarlierCrossoverWins ==
    /\ Called("ma_crossover")
    /\ trend.cross_dir = "bull"
    /\ \E p \in Crossings(trend.rel, "bull"), q \in Crossings(trend.rel, "bear") :
          p < q

\* The term of the swing-structure factor in the score of the last call
SwingTerm == trend.terms[5]

\* C24: when the last two swing highs and the last two swing lows form a
\* lower-high / lower-low sequence, the swing-structure factor contributes -15
\* to the trend score, mirroring the +15 given for higher-high / higher-low.
C24_LowerSwingsSubtract ==
    (Evaluated /\ trend.bars >= TREND_MIN_BARS) =>
        /\ (trend.factors.lower_high /\ trend.factors.lower_low)
              => SwingTerm = -15
        /\ (trend.factors.higher_high /\ trend.factors.higher_low)
              => SwingTerm = 15

\* What the function does: the factor adds 15 for a higher high or a higher
\* low and nothing otherwise
C24_SwingTermNeverNegative ==
    (Evaluated /\ trend.bars >= TREND_MIN_BARS) =>
        SwingTerm = IF trend.factors.higher_high \/ trend.factors.higher_low
                    THEN 15 ELSE 0

\* A window of lower highs and lower lows whose swing factor adds nothing
C24_LowerSwingsIgnored ==
    /\ Evaluated
    /\ trend.bars >= TREND_MIN_BARS
    /\ trend.factors.lower_high /\ trend.factors.lower_low
    /\ SwingTerm = 0

\* C26: evaluate_single_tf never returns the label Bear: for every reachable
\* score, score < 0 implies that the normalized confidence is below 50, so the
\* branch "confidence >= 60 and score < 0" is never taken and every bearish
\* window is labelled Sideways.
C26_NeverBear ==
    Evaluated =>
        /\ trend.out.trend # "Bear"
        /\ trend.score < 0 =>
              /\ trend.out.confidence < 50
              /\ trend.out.trend = "Sideways"

\* A window whose score is negative, labelled Sideways
C26_Witness ==
    /\ Evaluated
    /\ trend.bars >= TREND_MIN_BARS
    /\ trend.score < 0
    /\ trend.out.trend = "Sideways"
    /\ trend.out.confidence < 50

\* The candles of the lookback window of the last call whose column rounds
\* to level
InLookback(column, level) ==
    { k \in 1..Len(trend.df) :
        /\ k > Len(trend.df) - trend.window
        /\ round4(trend.df[k][column]) = level }

\* The direction of a pool: a cluster of highs is bearish, one of lows bullish
DirectionOf(pool) == IF pool.type = "high" THEN "bearish" ELSE "bullish"

\* C25: within the lookback window only, a liquidity pool is reported at a
\* level exactly when at least two candles' highs (resp. lows) round to that
\* level, with direction bearish for a high cluster and bullish for a low
\* cluster and with the number of occurrences; candles outside the window
\* never contribute.
C25_PoolsOfLookbackOnly ==
    Called("detect_liquidity_pools") =>
        /\ \A column \in {"high", "low"} :
           \A level \in { round4(trend.df[k][column]) : k \in 1..Len(trend.df) } :
              (\E pool \in trend.out : pool.type = column /\ pool.level = level)
                 <=> Cardinality(InLookback(column, level)) >= 2
        /\ \A pool \in trend.out :
              /\ pool.count = Cardinality(InLookback(pool.type, pool.level))
              /\ DirectionOf(pool) = IF pool.type = "high" THEN "bearish"
                                     ELSE "bullish"

\* What the function does: the rows of the whole frame are counted
C25_PoolsOfWholeFrame ==
    Called("detect_liquidity_pools") =>
        \A column \in {"high", "low"} :
        \A level \in { round4(trend.df[k][column]) : k \in 1..Len(trend.df) } :
            LET rows == { k \in 1..Len(trend.df) :
                            round4(trend.df[k][column]) = level }
            IN  /\ (\E pool \in trend.out :
                       pool.type = column /\ pool.level = level)
                      <=> Cardinality(rows) >= 2
                /\ \A pool \in trend.out :
                      (pool.type = column /\ pool.level = level)
                         => pool.count = Cardinality(rows)

\* A pool is reported whose level only one candle of the window rounds to
C25_PoolFromOutsideWindow ==
    /\ Called("detect_liquidity_pools")
    /\ \E pool \in trend.out :
          Cardinality(InLookback(pool.type, pool.level)) < 2

\* The last generate_signal call returned a signal built from an order block
OrderBlockAlert ==
    /\ IsSignal(signal)
    /\ pois[signal.poi].poi_type = "OB"

\* The POI list holds a valid order block with the confluence of a signal,
\* and generate_signal returns a signal for it
Armed ==
    /\ IsSignal(generate_signal(pois))
    /\ \E i \in 1..Len(pois) :
          /\ pois[i].poi_type = "OB"
          /\ pois[i].validated
          /\ SignalOf(pois, i).confluence_score >= MIN_CONFLUENCE

\* C27: once generate_signal has returned a signal triggered by an order
\* block, every later generate_signal call on that engine also returns a
\* signal, whatever candles arrive in between: order blocks are never
\* invalidated, POIs are never removed and the confluence entries ignore the
\* validity flag.
\* As a rule of single steps: an alert of an order block leaves the engine
\* armed, and every step of an armed engine leaves it armed and leaves a
\* signal as the value returned last.
C27_AlertRepeats ==
    [][/\ OrderBlockAlert => Armed
       /\ Armed => (Armed' /\ IsSignal(signal'))]_vars

\* The same over whole behaviours
C27_AlertForEver == [](OrderBlockAlert => [](IsSignal(signal)))

\* The order block at position i triggered the alert of the webhook that
\* detected it: no POI before it reaches the confluence of a signal, and a
\* POI of its direction was detected by then
AlertedWhenDetected(i) ==
    /\ pois[i].poi_type = "OB"
    /\ \A j \in 1..(i - 1) :
          pois[j].poi_type \in {"FVG", "OB"}
             => SignalOf(pois, j).confluence_score < MIN_CONFLUENCE
    /\ \E k \in 1..Len(pois) :
          /\ pois[k].poi_type \in {"FVG", "Liquidity"}
          /\ pois[k].direction = pois[i].direction
          /\ prov[k].by \in {"detect_fvgs", "detect_liquidity_pools"}
          /\ prov[k].at <= prov[i].at

\* An order block triggered an alert, candles arrived afterwards and the
\* last webhook returned the alert again
C27_Witness ==
    /\ pc = "idle"
    /\ \E i \in 1..Len(pois) :
          /\ AlertedWhenDetected(i)
          /\ Len(candles[PRIMARY_TF]) - 2 > prov[i].at
          /\ signal = SignalOf(pois, i)

\* C28: every FVG and OB POI the engine creates (by detect_fvgs,
\* detect_order_blocks or inversion in validate_fvgs) has start different from
\* end, so neither the fill-ratio division in validate_fvgs nor the
\* risk-reward division in generate_signal divides by zero in a reachable
\* state.
C28_NoZeroWidthPoi ==
    /\ \A k \in 1..Len(pois) :
          pois[k].poi_type \in {"FVG", "OB"} => pois[k].start # pois[k].end
    /\ signal.symbol # "ZeroDivisionError"
    /\ generate_signal(pois).symbol # "ZeroDivisionError"
    /\ validate_pois(candles, pois, prov).status # "ZeroDivisionError"

\* Both divisions were made: a gap was filled and inverted, and a signal
\* was returned while the list holds an order block
C28_Witness ==
    /\ IsSignal(signal)
    /\ \E k \in 1..Len(pois) : prov[k].by = "validate_fvgs"
    /\ \E k \in 1..Len(pois) : prov[k].by = "detect_fvgs"
    /\ \E k \in 1..Len(pois) : prov[k].by = "detect_order_blocks"

Fills(poi, c) ==
    /\ \/ poi.direction = "bullish" /\ c.low < poi.start
       \/ poi.direction = "bearish" /\ c.high > poi.end
    /\ RatioReached(FillNum(poi, c), poi.end - poi.start)

\* The gaps a step invalidates: valid before it, or built by it, and not
\* valid after it
InvalidatedByStep ==
    { k \in 1..Len(pois') :
        /\ pois'[k].poi_type = "FVG"
        /\ ~pois'[k].validated
        /\ k <= Len(pois) => pois[k].validated }

\* C30: validate_pois checks every valid FVG, whatever timeframe it was
\* detected on, against the last 10 candles of the primary timeframe only:
\* candles added to any other timeframe never invalidate an FVG, and with an
\* empty primary series no FVG is ever invalidated.
C30_PrimaryFrameOnly ==
    [][/\ \A k \in InvalidatedByStep :
             \E c \in { candles'[PRIMARY_TF][j] :
                          j \in { i \in 1..Len(candles'[PRIMARY_TF]) :
                                    i > Len(candles'[PRIMARY_TF]) - 10 } } :
                 Fills(pois'[k], c)
       /\ candles'[PRIMARY_TF] = candles[PRIMARY_TF] =>
             \A k \in 1..Len(pois) :
                 (pois[k].poi_type = "FVG" /\ pois[k].validated)
                    => pois'[k].validated
       /\ candles'[PRIMARY_TF] = <<>> =>
             \A k \in 1..Len(pois') :
                 pois'[k].poi_type = "FVG" => pois'[k].validated]_vars

\* A gap detected on H1 was invalidated by a candle of M15
C30_Witness ==
    /\ pc = "idle"
    /\ \E k \in 1..Len(pois) :
          /\ prov[k].by = "detect_fvgs"
          /\ prov[k].tf = "H1"
          /\ ~pois[k].validated
          /\ \E j \in 1..Len(candles[PRIMARY_TF]) :
                Fills(pois[k], candles[PRIMARY_TF][j])

\* A gap detected on H1 stays valid while M15 is empty, whatever H1 holds
C30_WitnessEmptyPrimary ==
    /\ candles[PRIMARY_TF] = <<>>
    /\ \E k \in 1..Len(pois) :
          /\ pois[k].poi_type = "FVG"
          /\ pois[k].validated
          /\ \E j \in 1..Len(candles["H1"]) : Fills(pois[k], candles["H1"][j])

\* A gap detected on H1 stays valid although a candle of M15 older than the
\* last 10 fills it
C30_WitnessOutsideWindow ==
    /\ pc = "idle"
    /\ \E k \in 1..Len(pois) :
          /\ prov[k].by = "detect_fvgs"
          /\ prov[k].tf = "H1"
          /\ pois[k].validated
          /\ \E j \in 1..Len(candles[PRIMARY_TF]) :
                /\ j <= Len(candles[PRIMARY_TF]) - 10
                /\ Fills(pois[k], candles[PRIMARY_TF][j])

====
